---- MODULE Spec2Model ----
(***************************************************************************)
(* A model of the jote web helpers: the instrumented handlers              *)
(* (AddLoggingToMux, AddLoggingToMuxNoRC, AddLoggingToMuxWithCounter),     *)
(* the client-IP resolution, the /metrics exposition and the graceful      *)
(* supervisor RunMux.  The repository holds two copies of the web helpers: *)
(* src/unnamed/part_000 and src/web.go.  The variable build says which of  *)
(* the two the running program was compiled from.                          *)
(*                                                                         *)
(* Strings whose content matters (addresses, header values, the metrics    *)
(* text) are sequences of one-character strings, so that parsing and       *)
(* formatting are computed character by character.                         *)
(***************************************************************************)
EXTENDS Integers, Sequences, FiniteSets, TLC

\* ------------------------------------------------------------------------
\* Characters, decimal and hexadecimal conversion
\* ------------------------------------------------------------------------

DecDigits == <<"0", "1", "2", "3", "4", "5", "6", "7", "8", "9">>

HexLower == <<"0", "1", "2", "3", "4", "5", "6", "7", "8", "9",
              "a", "b", "c", "d", "e", "f">>

HexUpper == <<"0", "1", "2", "3", "4", "5", "6", "7", "8", "9",
              "A", "B", "C", "D", "E", "F">>

Range(s) == {s[i] : i \in 1..Len(s)}

IsDigit(c) == c \in Range(DecDigits)

IsHex(c) == c \in Range(HexLower) \cup Range(HexUpper)

DigitVal(c) == (CHOOSE i \in 1..10 : DecDigits[i] = c) - 1

HexVal(c) ==
    IF c \in Range(HexLower)
    THEN (CHOOSE i \in 1..16 : HexLower[i] = c) - 1
    ELSE (CHOOSE i \in 1..16 : HexUpper[i] = c) - 1

RECURSIVE DecValue(_)
DecValue(s) ==
    IF Len(s) = 0 THEN 0
    ELSE DecValue(SubSeq(s, 1, Len(s) - 1)) * 10 + DigitVal(s[Len(s)])

RECURSIVE HexValue(_)
HexValue(s) ==
    IF Len(s) = 0 THEN 0
    ELSE HexValue(SubSeq(s, 1, Len(s) - 1)) * 16 + HexVal(s[Len(s)])

\* A formatter called with base 16 instead of 10.
RECURSIVE FormatUintBase16(_)
FormatUintBase16(n) ==
    IF n < 16 THEN <<HexLower[n + 1]>>
    ELSE Append(FormatUintBase16(n \div 16), HexLower[(n % 16) + 1])

\* strconv.FormatUint(n, 10): the decimal digits of n, no leading zero.
RECURSIVE FormatUint(_)
FormatUint(n) ==
    IF n < 10 THEN <<DecDigits[n + 1]>>
    ELSE Append(FormatUint(n \div 10), DecDigits[(n % 10) + 1])

\* netip's appendHex: lower-case hexadecimal digits of n, no leading zero.
RECURSIVE FormatHex(_)
FormatHex(n) ==
    IF n < 16 THEN <<HexLower[n + 1]>>
    ELSE Append(FormatHex(n \div 16), HexLower[(n % 16) + 1])

\* The fields of s between occurrences of the separator sep.
RECURSIVE Split(_, _)
Split(s, sep) ==
    IF \A i \in 1..Len(s) : s[i] # sep THEN <<s>>
    ELSE LET k == CHOOSE i \in 1..Len(s) :
                      s[i] = sep /\ \A j \in 1..(i - 1) : s[j] # sep
         IN  <<SubSeq(s, 1, k - 1)>> \o Split(SubSeq(s, k + 1, Len(s)), sep)

\* ------------------------------------------------------------------------
\* net.ParseIP and net.IP.String, as the handlers use them
\* ------------------------------------------------------------------------

\* A parsed address is its eight 16-bit groups (net.IP's 16-byte form);
\* an IPv4 address is stored IPv4-mapped, as net.ParseIP stores it.
NilIP == [ok |-> FALSE, g |-> <<>>]

V4Field(f) ==
    /\ Len(f) \in 1..3
    /\ \A i \in 1..Len(f) : IsDigit(f[i])
    /\ (Len(f) > 1 => f[1] # "0")
    /\ DecValue(f) <= 255

\* The four bytes of a dotted-quad address, or failure.
ParseIPv4(s) ==
    LET fs == Split(s, ".") IN
    IF Len(fs) = 4 /\ \A i \in 1..4 : V4Field(fs[i])
    THEN [ok |-> TRUE, b |-> [i \in 1..4 |-> DecValue(fs[i])]]
    ELSE [ok |-> FALSE, b |-> <<>>]

\* The number of leading hexadecimal digits of s.
RECURSIVE HexRun(_)
HexRun(s) ==
    IF Len(s) = 0 \/ ~IsHex(s[1]) THEN 0 ELSE 1 + HexRun(Tail(s))

P6Fail == [ok |-> FALSE, ip |-> <<>>, ell |-> -1, rest |-> <<>>]

\* The field loop of the IPv6 parser: ip holds the groups read so far, ell is
\* the group index of the "::" (-1 when none was seen).
RECURSIVE P6Loop(_, _, _)
P6Loop(s, ip, ell) ==
    IF Len(ip) >= 8 THEN [ok |-> TRUE, ip |-> ip, ell |-> ell, rest |-> s]
    ELSE
    LET off == HexRun(s) IN
    IF off = 0 \/ off > 4 THEN P6Fail
    ELSE IF off < Len(s) /\ s[off + 1] = "."
    THEN IF (ell < 0 /\ Len(ip) # 6) \/ Len(ip) > 6 THEN P6Fail
         ELSE LET v4 == ParseIPv4(s) IN
              IF ~v4.ok THEN P6Fail
              ELSE [ok |-> TRUE,
                    ip |-> ip \o <<v4.b[1] * 256 + v4.b[2],
                                   v4.b[3] * 256 + v4.b[4]>>,
                    ell |-> ell, rest |-> <<>>]
    ELSE
    LET ip2 == Append(ip, HexValue(SubSeq(s, 1, off)))
        s2  == SubSeq(s, off + 1, Len(s))
    IN
    IF Len(s2) = 0 THEN [ok |-> TRUE, ip |-> ip2, ell |-> ell, rest |-> <<>>]
    ELSE IF s2[1] # ":" \/ Len(s2) = 1 THEN P6Fail
    ELSE
    LET s3 == Tail(s2) IN
    IF s3[1] # ":" THEN P6Loop(s3, ip2, ell)
    ELSE IF ell >= 0 THEN P6Fail
    ELSE IF Len(s3) = 1
         THEN [ok |-> TRUE, ip |-> ip2, ell |-> Len(ip2), rest |-> <<>>]
         ELSE P6Loop(Tail(s3), ip2, Len(ip2))

Zeros(n) == [i \in 1..n |-> 0]

ParseIPv6(s) ==
    LET lead == Len(s) >= 2 /\ s[1] = ":" /\ s[2] = ":"
        s1   == IF lead THEN SubSeq(s, 3, Len(s)) ELSE s
        r    == IF lead /\ Len(s1) = 0
                THEN [ok |-> TRUE, ip |-> <<>>, ell |-> 0, rest |-> <<>>]
                ELSE P6Loop(s1, <<>>, IF lead THEN 0 ELSE -1)
    IN
    IF ~r.ok \/ Len(r.rest) # 0 THEN NilIP
    ELSE IF Len(r.ip) < 8
    THEN IF r.ell < 0 THEN NilIP
         ELSE [ok |-> TRUE,
               g |-> SubSeq(r.ip, 1, r.ell) \o Zeros(8 - Len(r.ip))
                     \o SubSeq(r.ip, r.ell + 1, Len(r.ip))]
    ELSE IF r.ell >= 0 THEN NilIP
    ELSE [ok |-> TRUE, g |-> r.ip]

\* net.ParseIP(s): the first of '.', ':' and '%' in s decides the form; a
\* zone (%) is never accepted.
ParseIP(s) ==
    LET marks == {i \in 1..Len(s) : s[i] \in {".", ":", "%"}} IN
    IF marks = {} \/ \E i \in 1..Len(s) : s[i] = "%" THEN NilIP
    ELSE
    LET k == CHOOSE i \in marks : \A j \in marks : i <= j IN
    IF s[k] = "."
    THEN LET v4 == ParseIPv4(s) IN
         IF v4.ok
         THEN [ok |-> TRUE,
               g |-> <<0, 0, 0, 0, 0, 65535,
                       v4.b[1] * 256 + v4.b[2], v4.b[3] * 256 + v4.b[4]>>]
         ELSE NilIP
    ELSE ParseIPv6(s)

\* The length of the run of zero groups of g that starts at group i.
RECURSIVE ZeroRun(_, _)
ZeroRun(g, i) ==
    IF i > 8 \/ g[i] # 0 THEN 0 ELSE 1 + ZeroRun(g, i + 1)

\* The groups from i on in the canonical text, zs the start of the
\* compressed run (0 when none) and zl its length.
RECURSIVE Emit6(_, _, _, _)
Emit6(g, i, zs, zl) ==
    IF i > 8 THEN <<>>
    ELSE IF i = zs THEN <<":", ":">> \o Emit6(g, i + zl, zs, zl)
    ELSE (IF i > 1 /\ i # zs + zl THEN <<":">> ELSE <<>>)
         \o FormatHex(g[i]) \o Emit6(g, i + 1, zs, zl)

\* net.IP.String() of a parsed address.
IPString(p) ==
    LET g == p.g IN
    IF \A i \in 1..5 : g[i] = 0 /\ g[6] = 65535
    THEN FormatUint(g[7] \div 256) \o <<".">> \o FormatUint(g[7] % 256)
         \o <<".">> \o FormatUint(g[8] \div 256) \o <<".">>
         \o FormatUint(g[8] % 256)
    ELSE
    LET best == {i \in 1..8 : ZeroRun(g, i) >= 2
                    /\ \A j \in 1..8 : ZeroRun(g, j) <= ZeroRun(g, i)}
        zs   == IF best = {} THEN 0
                ELSE CHOOSE i \in best : \A j \in best : i <= j
    IN  Emit6(g, 1, zs, IF zs = 0 THEN 0 ELSE ZeroRun(g, zs))

\* ------------------------------------------------------------------------
\* Client-IP resolution
\* ------------------------------------------------------------------------

Builds == {"part_000", "web"}

Variants == {"AddLoggingToMux", "AddLoggingToMuxNoRC",
             "AddLoggingToMuxWithCounter"}

Resolvers == Variants \cup {"HttpRequestGetIP"}

\* A request as the resolution reads it: the two headers ("" when absent, as
\* Header.Get returns) and r.RemoteAddr.
Empty == <<>>

\* HttpRequestGetIP.
HttpRequestGetIPWeb(q) ==
    IF q.xri # Empty THEN q.xri
    ELSE IF q.xff # Empty THEN q.xff
    ELSE IF ParseIP(q.remote).ok THEN IPString(ParseIP(q.remote))
    ELSE Empty

HttpRequestGetIP(b, q) ==
    IF b = "web" THEN HttpRequestGetIPWeb(q)
    ELSE IF q.xri # Empty THEN q.xri
    ELSE IF q.xff # Empty THEN q.xff
    ELSE IF ParseIP(q.remote).ok THEN IPString(ParseIP(q.remote))
    ELSE q.remote

\* The resolution written out in the handler bodies: srcIP := r.RemoteAddr,
\* replaced by X-Real-IP or else by the parsed form of itself.
InlineSrcIP(q) ==
    IF q.xri # Empty THEN q.xri
    ELSE IF ParseIP(q.remote).ok THEN IPString(ParseIP(q.remote))
    ELSE q.remote

\* The srcIP that resolver fn of build b computes for request q.
SrcIP(b, fn, q) ==
    IF fn = "HttpRequestGetIP" THEN HttpRequestGetIP(b, q)
    ELSE IF b = "part_000" /\ fn # "AddLoggingToMuxWithCounter"
    THEN HttpRequestGetIP(b, q)
    ELSE InlineSrcIP(q)

\* ------------------------------------------------------------------------
\* State
\* ------------------------------------------------------------------------

\* Bounds of the model.
MaxReq == 2

MaxPrior == 1

VARIABLES
    build,      \* which copy of the web helpers the program is built from
    variant,    \* the wrapper the program put around its mux
    counter,    \* the shared atomic.Uint64
    prior,      \* the counter's value when the wrapper was installed
    pc,         \* per request: idle, handler, count, log, done
    path,       \* per request: r.URL.Path
    rc,         \* per request: lrw.rc
    w,          \* per request: the underlying http.ResponseWriter
    issued,     \* per request: the calls the inner handler made
    outcome,    \* per request: "nil" (returned) or the value it panicked with
    re,         \* per request: what recover() returned in the deferred func
    srcIP,      \* per request: the resolved client IP
    log,        \* the records logger.Info received, in order
    ipq,        \* client-IP resolution: the request (headers, RemoteAddr)
    ipout,      \* client-IP resolution: what each resolver returned
    mname,      \* AddMetrics: the metric name
    mresp,      \* AddMetrics: the body of the last GET /metrics response
    runMode,    \* which entry point runs: RunMux or RunMuxSimple
    mainPc,     \* where the caller of RunMux / RunMuxSimple is
    wPc,        \* where the signal-watcher goroutine is
    srv,        \* the http.Server: inShutdown, its listener, whether tracked,
                \* how many Shutdown calls it received
    conns,      \* per connection: none, active, idle, closed, aborted
    sig,        \* signal state: registered signals, the sigint channel,
                \* how many signals were delivered to the process
    alive,      \* whether the process still runs
    idleConnsClosed, \* whether the completion channel is closed
    ret,        \* what ListenAndServe and Shutdown returned
    rlog,       \* the supervisor's log messages, in order
    atSignal,   \* history: at the first signal, whether the server was
                \* Serving and which connections were in progress
    caller,     \* Go: where the goroutine calling Go is, and the calls done
    defers,     \* Go: per goroutine, its stack of deferred calls
    goroutine,  \* Go: per started task, its function and how far it got
    exitCode    \* Go: 0 while the process runs, 2 once a panic ended it

hvars == <<build, variant, counter, prior, pc, path, rc, w, issued, outcome,
           re, srcIP, log>>

ipvars == <<ipq, ipout>>

mvars == <<mname, mresp>>

rvars == <<runMode, mainPc, wPc, srv, conns, sig, alive, idleConnsClosed, ret,
           rlog, atSignal>>

gvars == <<caller, defers, goroutine, exitCode>>

\* What the request handling leaves alone.
hframe == <<ipvars, mvars, rvars, gvars>>

Requests == 1..MaxReq

MetricsPath == "/metrics"

Paths == {MetricsPath, "/x"}

StatusOK == 200

StatusInternalServerError == 500

PanicValues == {"boom"}

WriteHeaderCall(code) == [op |-> "WriteHeader", code |-> code]

WriteCall == [op |-> "Write", code |-> 0]

\* What an inner handler does with its writer before it returns or panics:
\* nothing, a body only, a status (404) only, a status and a body, a status
\* after the body, two statuses.  The set is closed under prefixes, so the end of a
\* script is also every intermediate point of a longer one.
HandlerScripts ==
    { <<>>,
      <<WriteCall>>,
      <<WriteHeaderCall(404)>>,
      <<WriteHeaderCall(404), WriteCall>>,
      <<WriteCall, WriteHeaderCall(404)>>,
      <<WriteHeaderCall(404), WriteHeaderCall(StatusOK)>> }

\* The headers and transport address of the request in slot r.
Profiles ==
    << [xri |-> <<"1", ".", "2", ".", "3", ".", "4">>,
        xff |-> <<"5", ".", "6", ".", "7", ".", "8">>,
        remote |-> <<"9", ".", "9", ".", "9", ".", "9", ":", "4", "4", "3">>],
       [xri |-> Empty,
        xff |-> <<"5", ".", "6", ".", "7", ".", "8">>,
        remote |-> <<"9", ".", "9", ".", "9", ".", "9", ":", "4", "4", "3">>],
       [xri |-> Empty, xff |-> Empty,
        remote |-> <<"9", ".", "9", ".", "9", ".", "9", ":", "4", "4", "3">>] >>

ReqOf(r) == Profiles[((r - 1) % Len(Profiles)) + 1]

\* ------------------------------------------------------------------------
\* The response writers
\* ------------------------------------------------------------------------

\* The transport's writer before the handler touched it.
FreshWriter == [wroteHeader |-> FALSE, status |-> 0, calls |-> <<>>]

\* http.ResponseWriter.WriteHeader: only the first status is sent; a later
\* call is received and ignored.
UWriteHeader(u, code) ==
    [wroteHeader |-> TRUE,
     status |-> IF u.wroteHeader THEN u.status ELSE code,
     calls |-> Append(u.calls, WriteHeaderCall(code))]

\* http.ResponseWriter.Write: sends an implicit 200 when no status was sent.
UWrite(u) ==
    [wroteHeader |-> TRUE,
     status |-> IF u.wroteHeader THEN u.status ELSE StatusOK,
     calls |-> Append(u.calls, WriteCall)]

\* The status the client receives once the wrapper has returned: the one
\* sent, or the implicit 200 of a handler that sent nothing.
ClientStatus(u) == IF u.wroteHeader THEN u.status ELSE StatusOK

HasLrw(v) == v # "AddLoggingToMuxNoRC"

\* The value of lrw.rc in the struct literal (0 where there is no lrw).
InitialRc(b, v) ==
    IF ~HasLrw(v) THEN 0
    ELSE IF b = "web" /\ v = "AddLoggingToMuxWithCounter" THEN 0
    ELSE StatusOK

\* A loggingResponseWriter that records the code and keeps the call to
\* itself.
LrwWriteHeaderRecordOnly(s, code) == [w |-> s.w, rc |-> code]

\* loggingResponseWriter.WriteHeader on the pair s = [rc, w]: forward the
\* call to the embedded writer, then record the code.
LrwWriteHeader(s, code) == [w |-> UWriteHeader(s.w, code), rc |-> code]

\* WriteHeader on the writer the inner handler (or the deferred function)
\* holds: lrw, or the transport's writer itself in the NoRC variant.
SinkWriteHeader(v, s, code) ==
    IF HasLrw(v) THEN LrwWriteHeader(s, code)
    ELSE [w |-> UWriteHeader(s.w, code), rc |-> s.rc]

\* Write is not overridden: the embedded writer's Write is called.
SinkWrite(v, s) == [w |-> UWrite(s.w), rc |-> s.rc]

SinkCall(v, s, c) ==
    IF c.op = "WriteHeader" THEN SinkWriteHeader(v, s, c.code)
    ELSE SinkWrite(v, s)

\* The inner handler's calls, in order.
RECURSIVE RunScript(_, _, _)
RunScript(v, s, script) ==
    IF Len(script) = 0 THEN s
    ELSE RunScript(v, SinkCall(v, s, Head(script)), Tail(script))

\* ------------------------------------------------------------------------
\* The instrumented handler
\* ------------------------------------------------------------------------

\* A wrapper that forgot the path test.
IsMetricsPathNever(p) == FALSE

IsMetricsPath(p) == p = MetricsPath

\* recover() in the deferred function: the value of the panic in flight.
Recover(e) == e

\* Whether the deferred function answers a recovered panic with status 500.
Sends500(b, e) == b = "part_000" /\ e # "nil"

\* The deferred function up to its path test, on the pair s = [rc, w].
DeferredStatus(b, v, s, e) ==
    IF Sends500(b, e) THEN SinkWriteHeader(v, s, StatusInternalServerError)
    ELSE s

\* A counting wrapper that lost its counter.Add line.
AfterRecoverNoCount(v, p) == IF IsMetricsPath(p) THEN "done" ELSE "log"

\* Where the deferred function goes after the path test.
AfterRecover(v, p) ==
    IF IsMetricsPath(p) THEN "done"
    ELSE IF v = "AddLoggingToMuxWithCounter" THEN "count"
    ELSE "log"

\* A counter bumped twice per request.
CounterAddTwice(c) == c + 2

\* counter.Add(1).
CounterAdd(c) == c + 1

\* The record handed to logger.Info.
LogRecord(r) ==
    [req |-> r, ip |-> srcIP[r], url |-> path[r],
     hasStatus |-> HasLrw(variant),
     status |-> IF HasLrw(variant) THEN rc[r] ELSE 0,
     err |-> re[r]]

HInit ==
    /\ build \in Builds
    /\ variant \in Variants
    /\ prior \in (IF variant = "AddLoggingToMuxWithCounter"
                  THEN {0, MaxPrior} ELSE {0})
    /\ counter = prior
    /\ pc = [r \in Requests |-> "idle"]
    /\ path = [r \in Requests |-> "/x"]
    /\ rc = [r \in Requests |-> 0]
    /\ w = [r \in Requests |-> FreshWriter]
    /\ issued = [r \in Requests |-> <<>>]
    /\ outcome = [r \in Requests |-> "nil"]
    /\ re = [r \in Requests |-> "nil"]
    /\ srcIP = [r \in Requests |-> Empty]
    /\ log = <<>>

\* The wrapper is entered: srcIP is resolved, lrw is built and the inner
\* handler is called.
Arrive(r, p) ==
    /\ pc[r] = "idle"
    /\ pc' = [pc EXCEPT ![r] = "handler"]
    /\ path' = [path EXCEPT ![r] = p]
    /\ srcIP' = [srcIP EXCEPT ![r] = SrcIP(build, variant, ReqOf(r))]
    /\ rc' = [rc EXCEPT ![r] = InitialRc(build, variant)]
    /\ UNCHANGED <<build, variant, counter, prior, w, issued, outcome, re, log,
                   hframe>>

\* The inner handler makes its calls and returns (e = "nil") or panics with
\* e; the deferred function runs up to its path test: recover, then the 500
\* of a recovered panic.  All of it touches this request's state only.
Handle(r, script, e) ==
    /\ pc[r] = "handler"
    /\ issued' = [issued EXCEPT ![r] = script]
    /\ outcome' = [outcome EXCEPT ![r] = e]
    /\ re' = [re EXCEPT ![r] = Recover(e)]
    /\ LET s0 == [rc |-> rc[r], w |-> w[r]]
           s1 == RunScript(variant, s0, script)
           s2 == DeferredStatus(build, variant, s1, Recover(e))
       IN  /\ w' = [w EXCEPT ![r] = s2.w]
           /\ rc' = [rc EXCEPT ![r] = s2.rc]
    /\ pc' = [pc EXCEPT ![r] = AfterRecover(variant, path[r])]
    /\ UNCHANGED <<build, variant, counter, prior, path, srcIP, log,
                   hframe>>

\* counter.Add(1) in the deferred function.
Count(r) ==
    /\ pc[r] = "count"
    /\ counter' = CounterAdd(counter)
    /\ pc' = [pc EXCEPT ![r] = "log"]
    /\ UNCHANGED <<build, variant, prior, path, rc, w, issued, outcome, re,
                   srcIP, log,
                   hframe>>

\* logger.Info("webreq", ...) in the deferred function.
Log(r) ==
    /\ pc[r] = "log"
    /\ log' = Append(log, LogRecord(r))
    /\ pc' = [pc EXCEPT ![r] = "done"]
    /\ UNCHANGED <<build, variant, counter, prior, path, rc, w, issued,
                   outcome, re, srcIP,
                   hframe>>

HNext ==
    \/ \E r \in Requests, p \in Paths : Arrive(r, p)
    \/ \E r \in Requests, script \in HandlerScripts,
          e \in {"nil"} \cup PanicValues : Handle(r, script, e)
    \/ \E r \in Requests : Count(r)
    \/ \E r \in Requests : Log(r)

\* ------------------------------------------------------------------------
\* Client-IP resolution as a state machine
\* ------------------------------------------------------------------------

XRealIPs == {Empty, <<"1", ".", "2", ".", "3", ".", "4">>}

XForwardedFors == {Empty, <<"5", ".", "6", ".", "7", ".", "8">>}

RemoteAddrs ==
    { Empty,
      <<"9", ".", "9", ".", "9", ".", "9", ":", "4", "4", "3">>,
      <<"9", ".", "9", ".", "9", ".", "9">>,
      <<"[", ":", ":", "1", "]", ":", "8", "0">>,
      <<":", ":", "1">>,
      <<"0", ":", "0", ":", "0", ":", "0", ":", "0", ":", "0", ":", "0", ":", "1">>,
      <<"@">> }

Unset == [set |-> FALSE, v |-> Empty]

IPIdle ==
    /\ ipq = [xri |-> Empty, xff |-> Empty, remote |-> Empty]
    /\ ipout = [fn \in Resolvers |-> Unset]

IPInit ==
    /\ ipq \in [xri : XRealIPs, xff : XForwardedFors, remote : RemoteAddrs]
    /\ ipout = [fn \in Resolvers |-> Unset]

\* Resolver fn (HttpRequestGetIP, or the opening lines of a wrapper) runs on
\* the request.
Resolve(fn) ==
    /\ ~ipout[fn].set
    /\ ipout' = [ipout EXCEPT ![fn] = [set |-> TRUE, v |-> SrcIP(build, fn, ipq)]]
    /\ UNCHANGED <<ipq, hvars, mvars, rvars, gvars>>

IPNext == \E fn \in Resolvers : Resolve(fn)

\* ------------------------------------------------------------------------
\* AddMetrics
\* ------------------------------------------------------------------------

MaxAdds == 12

MetricNames == {Empty, <<"a", "p", "i">>, <<"a", "_", "b">>}

MetricPriors == {0, 99}

TotalSuffix ==
    <<"_", "h", "t", "t", "p", "_", "r", "e", "q", "u", "e", "s", "t", "s",
      "_", "t", "o", "t", "a", "l">>

\* metricText, built once when the route is registered.
MetricText(name) ==
    <<"#", " ", "T", "Y", "P", "E", " ">> \o name \o TotalSuffix
    \o <<" ", "c", "o", "u", "n", "t", "e", "r", "\n">>
    \o name \o TotalSuffix \o <<" ">>

\* What the GET /metrics handler writes for a loaded counter value c.
MetricsBody(name, c) == MetricText(name) \o FormatUint(c)

NoResponse == [sent |-> FALSE, body |-> Empty]

MIdle ==
    /\ mname = Empty
    /\ mresp = NoResponse

\* Some instrumented request executes counter.Add(1).
MAdd ==
    /\ counter < prior + MaxAdds
    /\ counter' = CounterAdd(counter)
    /\ UNCHANGED <<build, variant, prior, pc, path, rc, w, issued, outcome, re,
                   srcIP, log, ipvars, mvars, rvars, gvars>>

\* GET /metrics: io.WriteString(w, metricText + FormatUint(counter.Load())).
MetricsGet ==
    /\ mresp' = [sent |-> TRUE, body |-> MetricsBody(mname, counter)]
    /\ UNCHANGED <<hvars, ipvars, mname, rvars, gvars>>

MNext == MAdd \/ MetricsGet

\* ------------------------------------------------------------------------
\* RunMux and RunMuxSimple
\* ------------------------------------------------------------------------

MaxConns == 2

MaxSignals == 2

Conns == 1..MaxConns

\* The signals of the model; os.Interrupt is syscall.SIGINT.
Signals == {"SIGINT", "SIGTERM"}

RunModes == {"RunMux", "RunMuxSimple"}

RInit ==
    /\ runMode \in RunModes
    /\ mainPc = "start"
    /\ wPc = "unspawned"
    /\ srv = [inShutdown |-> FALSE, listener |-> "none", tracked |-> FALSE,
             shutdowns |-> 0]
    /\ conns = [c \in Conns |-> "none"]
    /\ sig = [registered |-> {}, chan |-> <<>>, delivered |-> 0]
    /\ alive = TRUE
    /\ idleConnsClosed = FALSE
    /\ ret = [las |-> "none", shut |-> "none"]
    /\ rlog = <<>>
    /\ atSignal = [seen |-> FALSE, serving |-> FALSE, inflight |-> {}]

RIdle ==
    /\ runMode = "RunMux"
    /\ mainPc = "start"
    /\ wPc = "unspawned"
    /\ srv = [inShutdown |-> FALSE, listener |-> "none", tracked |-> FALSE,
             shutdowns |-> 0]
    /\ conns = [c \in Conns |-> "none"]
    /\ sig = [registered |-> {}, chan |-> <<>>, delivered |-> 0]
    /\ alive = TRUE
    /\ idleConnsClosed = FALSE
    /\ ret = [las |-> "none", shut |-> "none"]
    /\ rlog = <<>>
    /\ atSignal = [seen |-> FALSE, serving |-> FALSE, inflight |-> {}]

rframe == <<hvars, ipvars, mvars, gvars>>

Active == {c \in Conns : conns[c] = "active"}

\* The accept loop runs on an open listener.
Serving == mainPc = "accept" /\ srv.listener = "open"

\* The entry point up to the call of ListenAndServe: RunMux logs, builds
\* srv, makes idleConnsClosed and starts the watcher goroutine; RunMuxSimple
\* only builds the server.
Start ==
    /\ alive /\ mainPc = "start"
    /\ mainPc' = "listen"
    /\ IF runMode = "RunMux"
       THEN /\ wPc' = "notify1"
            /\ rlog' = Append(rlog, "Now listening")
       ELSE UNCHANGED <<wPc, rlog>>
    /\ UNCHANGED <<runMode, srv, conns, sig, alive, idleConnsClosed, ret,
                   atSignal, rframe>>

\* The signal each of the watcher's three signal.Notify calls registers.
NotifySignal(p) ==
    IF p = "notify3" THEN "SIGTERM" ELSE "SIGINT"

NotifyNext(p) ==
    IF p = "notify1" THEN "notify2"
    ELSE IF p = "notify2" THEN "notify3"
    ELSE "recv"

\* signal.Notify(sigint, ...) in the watcher.
Notify ==
    /\ alive /\ wPc \in {"notify1", "notify2", "notify3"}
    /\ sig' = [sig EXCEPT !.registered = @ \cup {NotifySignal(wPc)}]
    /\ wPc' = NotifyNext(wPc)
    /\ UNCHANGED <<runMode, mainPc, srv, conns, alive, idleConnsClosed, ret,
                   rlog, atSignal, rframe>>

\* The operating system delivers signal s to the process: a registered
\* signal goes to the channel (dropped when its buffer of one is full), an
\* unregistered one ends the process, cutting every connection.
Signal(s) ==
    /\ alive /\ sig.delivered < MaxSignals
    /\ atSignal' = IF atSignal.seen THEN atSignal
                   ELSE [seen |-> TRUE, serving |-> Serving,
                         inflight |-> Active]
    /\ IF s \in sig.registered
       THEN /\ sig' = [sig EXCEPT
                          !.delivered = @ + 1,
                          !.chan = IF Len(@) < 1 THEN Append(@, s) ELSE @]
            /\ UNCHANGED <<alive, conns>>
       ELSE /\ sig' = [sig EXCEPT !.delivered = @ + 1]
            /\ alive' = FALSE
            /\ conns' = [c \in Conns |->
                            IF conns[c] \in {"active", "idle"}
                            THEN "aborted" ELSE conns[c]]
    /\ UNCHANGED <<runMode, mainPc, wPc, srv, idleConnsClosed, ret, rlog,
                   rframe>>

\* <-sigint in the watcher, and its log line.
Receive ==
    /\ alive /\ wPc = "recv"
    /\ Len(sig.chan) > 0
    /\ sig' = [sig EXCEPT !.chan = Tail(@)]
    /\ rlog' = Append(rlog, "Signal received, shutting down...")
    /\ wPc' = "shutdown"
    /\ UNCHANGED <<runMode, mainPc, srv, conns, alive, idleConnsClosed, ret,
                   atSignal, rframe>>

\* srv.Shutdown is entered: inShutdown is set and the tracked listener is
\* closed; closing it may fail with lnerr.
ShutdownBegin(lnerr) ==
    /\ alive /\ wPc = "shutdown"
    /\ (lnerr # "nil" => srv.tracked /\ srv.listener = "open")
    /\ srv' = [srv EXCEPT
                  !.inShutdown = TRUE,
                  !.listener = IF srv.tracked /\ @ = "open" THEN "closed" ELSE @,
                  !.shutdowns = @ + 1]
    /\ ret' = [ret EXCEPT !.shut = lnerr]
    /\ wPc' = "poll"
    /\ UNCHANGED <<runMode, mainPc, conns, sig, alive, idleConnsClosed, rlog,
                   atSignal, rframe>>

\* Shutdown's poll: closeIdleConns closes the idle connections; Shutdown
\* returns once no connection is active (its context never ends).
ShutdownPoll ==
    /\ alive /\ wPc = "poll"
    /\ conns' = [c \in Conns |-> IF conns[c] = "idle" THEN "closed" ELSE conns[c]]
    /\ wPc' = IF Active = {} THEN "shutret" ELSE "poll"
    /\ (Active # {} => conns' # conns)
    /\ UNCHANGED <<runMode, mainPc, srv, sig, alive, idleConnsClosed, ret,
                   rlog, atSignal, rframe>>

\* A watcher that, when Shutdown fails, logs and ends without closing
\* idleConnsClosed.
CloseIdleConnsClosedUnlessError ==
    /\ alive /\ wPc = "shutret"
    /\ rlog' = IF ret.shut # "nil"
               THEN Append(rlog, "Error at httpServer.Shutdown") ELSE rlog
    /\ idleConnsClosed' = (ret.shut = "nil")
    /\ wPc' = "exit"
    /\ UNCHANGED <<runMode, mainPc, srv, conns, sig, alive, ret, atSignal,
                   rframe>>

\* After Shutdown: its error, if any, is logged, and idleConnsClosed is
\* closed.
CloseIdleConnsClosed ==
    /\ alive /\ wPc = "shutret"
    /\ rlog' = IF ret.shut # "nil"
               THEN Append(rlog, "Error at httpServer.Shutdown") ELSE rlog
    /\ idleConnsClosed' = TRUE
    /\ wPc' = "exit"
    /\ UNCHANGED <<runMode, mainPc, srv, conns, sig, alive, ret, atSignal,
                   rframe>>

\* ListenAndServe is entered: a server already shutting down returns
\* ErrServerClosed; otherwise the address is bound, or binding fails.
Listen(bindOk) ==
    /\ alive /\ mainPc = "listen"
    /\ IF srv.inShutdown
       THEN /\ ret' = [ret EXCEPT !.las = "ErrServerClosed"]
            /\ mainPc' = "lasret"
            /\ srv' = srv
       ELSE IF bindOk
       THEN /\ srv' = [srv EXCEPT !.listener = "open"]
            /\ mainPc' = "track"
            /\ ret' = ret
       ELSE /\ ret' = [ret EXCEPT !.las = "bind"]
            /\ mainPc' = "lasret"
            /\ srv' = srv
    /\ UNCHANGED <<runMode, wPc, conns, sig, alive, idleConnsClosed, rlog,
                   atSignal, rframe>>

\* Serve registers the listener, unless the server is shutting down: then
\* it closes the listener and returns ErrServerClosed.
Track ==
    /\ alive /\ mainPc = "track"
    /\ IF srv.inShutdown
       THEN /\ srv' = [srv EXCEPT !.listener = "closed"]
            /\ ret' = [ret EXCEPT !.las = "ErrServerClosed"]
            /\ mainPc' = "lasret"
       ELSE /\ srv' = [srv EXCEPT !.tracked = TRUE]
            /\ mainPc' = "accept"
            /\ ret' = ret
    /\ UNCHANGED <<runMode, wPc, conns, sig, alive, idleConnsClosed, rlog,
                   atSignal, rframe>>

\* The accept loop accepts connection c and starts serving it.
Accept(c) ==
    /\ alive /\ Serving
    /\ conns[c] = "none"
    /\ conns' = [conns EXCEPT ![c] = "active"]
    /\ UNCHANGED <<runMode, mainPc, wPc, srv, sig, alive, idleConnsClosed,
                   ret, rlog, atSignal, rframe>>

\* Accept fails: on the listener Shutdown closed, Serve returns
\* ErrServerClosed; on a listener that broke, the accept error.
AcceptError ==
    /\ alive /\ mainPc = "accept"
    /\ IF srv.inShutdown
       THEN /\ ret' = [ret EXCEPT !.las = "ErrServerClosed"]
            /\ srv' = [srv EXCEPT !.tracked = FALSE]
       ELSE /\ ret' = [ret EXCEPT !.las = "accept"]
            /\ srv' = [srv EXCEPT !.listener = "closed", !.tracked = FALSE]
    /\ mainPc' = "lasret"
    /\ UNCHANGED <<runMode, wPc, conns, sig, alive, idleConnsClosed, rlog,
                   atSignal, rframe>>

\* A RunMux that gives up on a listener error instead of waiting.
AfterListenAndServeGivesUp ==
    /\ alive /\ mainPc = "lasret"
    /\ rlog' = IF runMode = "RunMux" /\ ret.las # "ErrServerClosed"
               THEN Append(rlog, "Error at ListenAndServe") ELSE rlog
    /\ mainPc' = IF runMode = "RunMux" /\ ret.las = "ErrServerClosed"
                 THEN "wait" ELSE "returned"
    /\ UNCHANGED <<runMode, wPc, srv, conns, sig, alive, idleConnsClosed, ret,
                   atSignal, rframe>>

\* After ListenAndServe: RunMux logs an error other than ErrServerClosed and
\* goes on to wait; RunMuxSimple returns the error.
AfterListenAndServe ==
    /\ alive /\ mainPc = "lasret"
    /\ IF runMode = "RunMux"
       THEN /\ rlog' = IF ret.las # "ErrServerClosed"
                       THEN Append(rlog, "Error at ListenAndServe") ELSE rlog
            /\ mainPc' = "wait"
       ELSE /\ rlog' = rlog
            /\ mainPc' = "returned"
    /\ UNCHANGED <<runMode, wPc, srv, conns, sig, alive, idleConnsClosed, ret,
                   atSignal, rframe>>

\* A caller that does not wait for the watcher.
DrainCompleteUnwaited == TRUE

\* A receive from idleConnsClosed can proceed.
DrainComplete == idleConnsClosed

\* <-idleConnsClosed, and RunMux returns.
Wait ==
    /\ alive /\ mainPc = "wait"
    /\ DrainComplete
    /\ mainPc' = "returned"
    /\ UNCHANGED <<runMode, wPc, srv, conns, sig, alive, idleConnsClosed, ret,
                   rlog, atSignal, rframe>>

\* The request on connection c finishes: the connection is kept alive, or
\* closed when the server is shutting down.
ConnFinish(c) ==
    /\ alive /\ conns[c] = "active"
    /\ conns' = [conns EXCEPT ![c] = IF srv.inShutdown THEN "closed" ELSE "idle"]
    /\ UNCHANGED <<runMode, mainPc, wPc, srv, sig, alive, idleConnsClosed,
                   ret, rlog, atSignal, rframe>>

\* A kept-alive connection carries its next request.
ConnNextRequest(c) ==
    /\ alive /\ conns[c] = "idle"
    /\ conns' = [conns EXCEPT ![c] = "active"]
    /\ UNCHANGED <<runMode, mainPc, wPc, srv, sig, alive, idleConnsClosed,
                   ret, rlog, atSignal, rframe>>

\* A kept-alive connection is closed by the client or the idle timeout.
ConnIdleClose(c) ==
    /\ alive /\ conns[c] = "idle"
    /\ conns' = [conns EXCEPT ![c] = "closed"]
    /\ UNCHANGED <<runMode, mainPc, wPc, srv, sig, alive, idleConnsClosed,
                   ret, rlog, atSignal, rframe>>

RNext ==
    \/ Start
    \/ Notify
    \/ \E s \in Signals : Signal(s)
    \/ Receive
    \/ \E lnerr \in {"nil", "close error"} : ShutdownBegin(lnerr)
    \/ ShutdownPoll
    \/ CloseIdleConnsClosed
    \/ \E bindOk \in BOOLEAN : Listen(bindOk)
    \/ Track
    \/ \E c \in Conns : Accept(c)
    \/ AcceptError
    \/ AfterListenAndServe
    \/ Wait
    \/ \E c \in Conns : ConnFinish(c)
    \/ \E c \in Conns : ConnNextRequest(c)
    \/ \E c \in Conns : ConnIdleClose(c)

\* ------------------------------------------------------------------------
\* Go: start a goroutine
\* ------------------------------------------------------------------------

MaxGo == 3

Tasks == 1..MaxGo

\* Goroutine 0 is the caller of Go; goroutine t runs task t.
Goroutines == 0..MaxGo

\* What a function handed to Go may do.
GoFuncs == {"returns", "panics"}

NoGoroutine == [st |-> "none", f |-> "returns"]

\* The call deferred by `defer recover()`: recover itself is the deferred
\* call; it is not called from inside a deferred function.
DeferRecover == [call |-> "recover", inFunc |-> FALSE]

\* recover() stops a panic only when a deferred function calls it, in the
\* goroutine that panics.
StopsPanic(d) == d.call = "recover" /\ d.inFunc

\* A panic unwinding a goroutine with deferred calls stack: recovered by the
\* first deferred call that stops it, else it ends the process.
Unwind(stack) ==
    IF \E i \in 1..Len(stack) : StopsPanic(stack[i])
    THEN "recovered" ELSE "crashed"

GInit ==
    /\ caller = [at |-> "idle", done |-> 0, f |-> "returns"]
    /\ defers = [g \in Goroutines |-> <<>>]
    /\ goroutine = [t \in Tasks |-> NoGoroutine]
    /\ exitCode = 0

gframe == <<hvars, ipvars, mvars, rvars>>

\* Go(gFunc) is entered and executes `defer recover()`: the call is pushed
\* on the deferred calls of the calling goroutine.
GoDefer(f) ==
    /\ exitCode = 0 /\ caller.at = "idle" /\ caller.done < MaxGo
    /\ caller' = [caller EXCEPT !.at = "deferred", !.f = f]
    /\ defers' = [defers EXCEPT ![0] = <<DeferRecover>> \o @]
    /\ UNCHANGED <<goroutine, exitCode, gframe>>

\* `go gFunc()`: a new goroutine, with no deferred calls of its own.
GoSpawn ==
    /\ exitCode = 0 /\ caller.at = "deferred"
    /\ goroutine' = [goroutine EXCEPT ![caller.done + 1] =
                         [st |-> "running", f |-> caller.f]]
    /\ caller' = [caller EXCEPT !.at = "spawned"]
    /\ UNCHANGED <<defers, exitCode, gframe>>

\* Go returns: its deferred recover() runs in the caller, which is not
\* panicking, and returns nil.
GoReturn ==
    /\ exitCode = 0 /\ caller.at = "spawned"
    /\ defers' = [defers EXCEPT ![0] = Tail(@)]
    /\ caller' = [caller EXCEPT !.at = "idle", !.done = @ + 1]
    /\ UNCHANGED <<goroutine, exitCode, gframe>>

\* gFunc returns in its goroutine.
GoFuncReturn(t) ==
    /\ exitCode = 0
    /\ goroutine[t].st = "running" /\ goroutine[t].f = "returns"
    /\ goroutine' = [goroutine EXCEPT ![t].st = "returned"]
    /\ UNCHANGED <<caller, defers, exitCode, gframe>>

\* gFunc panics in its goroutine: the panic unwinds that goroutine's
\* deferred calls; unrecovered, it ends the process with exit code 2.
GoFuncPanic(t) ==
    /\ exitCode = 0
    /\ goroutine[t].st = "running" /\ goroutine[t].f = "panics"
    /\ goroutine' = [goroutine EXCEPT ![t].st = Unwind(defers[t])]
    /\ exitCode' = IF Unwind(defers[t]) = "crashed" THEN 2 ELSE 0
    /\ UNCHANGED <<caller, defers, gframe>>

GNext ==
    \/ \E f \in GoFuncs : GoDefer(f)
    \/ GoSpawn
    \/ GoReturn
    \/ \E t \in Tasks : GoFuncReturn(t)
    \/ \E t \in Tasks : GoFuncPanic(t)

\* ------------------------------------------------------------------------
\* Specifications
\* ------------------------------------------------------------------------

vars == <<hvars, ipvars, mvars, rvars, gvars>>

\* The state of the request handling when another part is examined.
HIdle ==
    /\ build \in Builds
    /\ variant = "AddLoggingToMuxWithCounter"
    /\ prior = 0
    /\ counter = 0
    /\ pc = [r \in Requests |-> "idle"]
    /\ path = [r \in Requests |-> "/x"]
    /\ rc = [r \in Requests |-> 0]
    /\ w = [r \in Requests |-> FreshWriter]
    /\ issued = [r \in Requests |-> <<>>]
    /\ outcome = [r \in Requests |-> "nil"]
    /\ re = [r \in Requests |-> "nil"]
    /\ srcIP = [r \in Requests |-> Empty]
    /\ log = <<>>

MInit ==
    /\ build \in Builds
    /\ variant = "AddLoggingToMuxWithCounter"
    /\ prior \in MetricPriors
    /\ counter = prior
    /\ pc = [r \in Requests |-> "idle"]
    /\ path = [r \in Requests |-> "/x"]
    /\ rc = [r \in Requests |-> 0]
    /\ w = [r \in Requests |-> FreshWriter]
    /\ issued = [r \in Requests |-> <<>>]
    /\ outcome = [r \in Requests |-> "nil"]
    /\ re = [r \in Requests |-> "nil"]
    /\ srcIP = [r \in Requests |-> Empty]
    /\ log = <<>>
    /\ mname \in MetricNames
    /\ mresp = NoResponse

Init == HInit /\ IPIdle /\ MIdle /\ RIdle /\ GInit

InitIP == HIdle /\ IPInit /\ MIdle /\ RIdle /\ GInit

InitMetrics == MInit /\ IPIdle /\ RIdle /\ GInit

InitRun == HIdle /\ IPIdle /\ MIdle /\ RInit /\ GInit

InitGo == HIdle /\ IPIdle /\ MIdle /\ RIdle /\ GInit

\* Requests through the instrumented handler.
Spec == Init /\ [][HNext]_vars

\* The client-IP resolvers on one request.
SpecIP == InitIP /\ [][IPNext]_vars

\* The metrics route beside a counter that requests increment.
SpecMetrics == InitMetrics /\ [][MNext]_vars

\* The supervisor, its watcher goroutine, the connections and the signals.
SpecRun == InitRun /\ [][RNext]_vars

\* A program that starts tasks with Go.
SpecGo == InitGo /\ [][GNext]_vars

\* What the Go scheduler and the transport guarantee once the program runs:
\* a goroutine that can take its next step takes it (the watcher through
\* Shutdown, the caller through ListenAndServe and the wait), Accept on a
\* listener that Shutdown closed returns, and a request in progress finishes
\* or times out.
RunFairness ==
    /\ WF_vars(Notify)
    /\ WF_vars(Receive)
    /\ WF_vars(\E lnerr \in {"nil", "close error"} : ShutdownBegin(lnerr))
    /\ WF_vars(ShutdownPoll)
    /\ WF_vars(CloseIdleConnsClosed)
    /\ WF_vars(\E bindOk \in BOOLEAN : Listen(bindOk))
    /\ WF_vars(Track)
    /\ WF_vars(srv.inShutdown /\ AcceptError)
    /\ WF_vars(AfterListenAndServe)
    /\ WF_vars(Wait)
    /\ \A c \in Conns : WF_vars(ConnFinish(c))

\* The supervisor under that scheduling.
SpecRunFair == InitRun /\ [][RNext]_vars /\ RunFairness

\* ------------------------------------------------------------------------
\* Properties of the instrumented handler
\* ------------------------------------------------------------------------

\* The log records of request r.
RecordsOf(r) == {i \in 1..Len(log) : log[i].req = r}

\* The requests the counting wrapper has counted so far.
Counted ==
    {r \in Requests : variant = "AddLoggingToMuxWithCounter"
                      /\ ~IsMetricsPath(path[r]) /\ pc[r] \in {"log", "done"}}

AllDone == \A r \in Requests : pc[r] = "done"

\* C1: in the counting variant the counter is, in every interleaving, its
\* prior value plus the number of non-metrics requests whose deferred function
\* has passed counter.Add; once all N requests (returned or panicked) are
\* done it is exactly the prior value plus the number of non-metrics requests.
C1_CounterExact ==
    /\ variant = "AddLoggingToMuxWithCounter"
       => counter = prior + Cardinality(Counted)
    /\ (variant = "AddLoggingToMuxWithCounter" /\ AllDone)
       => counter = prior
             + Cardinality({r \in Requests : ~IsMetricsPath(path[r])})

C1_Witness ==
    /\ variant = "AddLoggingToMuxWithCounter"
    /\ AllDone
    /\ \A r \in Requests : ~IsMetricsPath(path[r])
    /\ \E r \in Requests : outcome[r] # "nil"
    /\ \E r \in Requests : outcome[r] = "nil"
    /\ prior > 0
    /\ counter = prior + MaxReq

\* C2: a request to /metrics never has a log record and never reaches the
\* counting or logging step, whether its handler returned or panicked, in
\* every variant; the counter's increase is made up of non-metrics requests
\* only.
C2_MetricsNotLoggedNotCounted ==
    /\ \A r \in Requests :
          (pc[r] # "idle" /\ IsMetricsPath(path[r]))
          => RecordsOf(r) = {} /\ pc[r] \in {"handler", "done"}
    /\ \A i \in 1..Len(log) : log[i].url # MetricsPath
    /\ counter - prior
         <= Cardinality({r \in Requests : pc[r] \in {"log", "done"}
                                          /\ path[r] # MetricsPath})

C2_Witness ==
    /\ variant = "AddLoggingToMuxWithCounter"
    /\ \E r \in Requests :
          path[r] = MetricsPath /\ pc[r] = "done" /\ outcome[r] # "nil"
    /\ \E r \in Requests :
          path[r] = MetricsPath /\ pc[r] = "done" /\ outcome[r] = "nil"
    /\ counter = prior
    /\ log = <<>>

\* C3: a non-metrics request whose handler returned normally has, in the
\* status-logging variants, exactly one log record, and its status is the
\* status the client received (200 when the handler set none).
C3_LoggedStatusIsSent ==
    \A r \in Requests :
        (pc[r] = "done" /\ ~IsMetricsPath(path[r]) /\ outcome[r] = "nil"
            /\ HasLrw(variant))
        => /\ Cardinality(RecordsOf(r)) = 1
           /\ \A i \in RecordsOf(r) :
                 log[i].hasStatus /\ log[i].status = ClientStatus(w[r])

\* C4: a request whose handler panicked: the panic was recovered, the client
\* receives 500 if the handler had sent no header, and (where requests are
\* logged at all, that is off the metrics path) exactly one log record
\* carries the panic value.
C4_PanicRecoveredAnd500 ==
    \A r \in Requests :
        (pc[r] = "done" /\ outcome[r] # "nil")
        => /\ re[r] = outcome[r]
           /\ (issued[r] = <<>> => ClientStatus(w[r]) = StatusInternalServerError)
           /\ ~IsMetricsPath(path[r])
              => /\ Cardinality(RecordsOf(r)) = 1
                 /\ \A i \in RecordsOf(r) : log[i].err = outcome[r]

\* ------------------------------------------------------------------------
\* Properties of the client-IP resolution
\* ------------------------------------------------------------------------

\* The documented order, first non-empty wins: X-Real-IP, X-Forwarded-For,
\* the parsed numeric form of the remote address, the raw remote address, "".
DocumentedIP(q) ==
    IF q.xri # Empty THEN q.xri
    ELSE IF q.xff # Empty THEN q.xff
    ELSE IF ParseIP(q.remote).ok /\ IPString(ParseIP(q.remote)) # Empty
         THEN IPString(ParseIP(q.remote))
    ELSE q.remote

\* C8: every wrapper and HttpRequestGetIP resolve the client IP by the
\* documented order.
C8_SameResolutionOrder ==
    \A fn \in Resolvers : ipout[fn].set => ipout[fn].v = DocumentedIP(ipq)

\* The index of the last ":" of s (0 when there is none).
LastColon(s) ==
    LET cs == {i \in 1..Len(s) : s[i] = ":"} IN
    IF cs = {} THEN 0 ELSE CHOOSE i \in cs : \A j \in cs : j <= i

\* s has the form host:port with a numeric port and a host without colons.
IsHostPort(s) ==
    LET k == LastColon(s) IN
    /\ k > 1
    /\ k < Len(s)
    /\ \A i \in (k + 1)..Len(s) : IsDigit(s[i])
    /\ \A i \in 1..(k - 1) : s[i] \notin {":", "[", "]"}

HostOf(s) == SubSeq(s, 1, LastColon(s) - 1)

\* C9: with neither header and a remote address of the form host:port, the
\* resolved client IP is the host alone.
C9_HostPortYieldsHost ==
    \A fn \in Resolvers :
        (ipout[fn].set /\ ipq.xri = Empty /\ ipq.xff = Empty
            /\ IsHostPort(ipq.remote))
        => ipout[fn].v = HostOf(ipq.remote)

\* ------------------------------------------------------------------------
\* Properties of the metrics route
\* ------------------------------------------------------------------------

\* The text before the value, for metric name n.
ExpectedPrefix(n) ==
    <<"#", " ", "T", "Y", "P", "E", " ">> \o n
    \o <<"_", "h", "t", "t", "p", "_", "r", "e", "q", "u", "e", "s", "t", "s",
         "_", "t", "o", "t", "a", "l", " ", "c", "o", "u", "n", "t", "e", "r",
         "\n">>
    \o n
    \o <<"_", "h", "t", "t", "p", "_", "r", "e", "q", "u", "e", "s", "t", "s",
         "_", "t", "o", "t", "a", "l", " ">>

\* body is the prefix for n followed by the decimal numeral of v and nothing
\* else.
IsMetricsTextFor(body, n, v) ==
    LET k == Len(ExpectedPrefix(n))
        d == SubSeq(body, k + 1, Len(body))
    IN  /\ Len(body) > k
        /\ SubSeq(body, 1, k) = ExpectedPrefix(n)
        /\ \A i \in 1..Len(d) : IsDigit(d[i])
        /\ (Len(d) > 1 => d[1] # "0")
        /\ DecValue(d) = v

\* C10: every GET /metrics answers with exactly the TYPE line, a newline and
\* the sample line carrying the counter's current value in decimal, and the
\* read leaves the counter as it was.
C10_MetricsTextExact ==
    [][mresp' # mresp
       => /\ mresp'.sent
          /\ IsMetricsTextFor(mresp'.body, mname, counter)
          /\ counter' = counter]_vars

C10_Witness ==
    /\ mname = <<"a", "p", "i">>
    /\ counter = 110
    /\ mresp.sent
    /\ IsMetricsTextFor(mresp.body, mname, 110)

\* ------------------------------------------------------------------------
\* Properties of the supervisor
\* ------------------------------------------------------------------------

\* Shutdown has begun and has not yet returned, or connections still run
\* under it.
Draining == srv.inShutdown /\ (wPc = "poll" \/ Active # {})

\* C5: in RunMux, once a termination signal was delivered while the server
\* was Serving, no step accepts a new connection, and no connection that was
\* in progress at the signal is ever cut off.
C5_NoAcceptAfterSignal ==
    /\ [][(runMode = "RunMux" /\ atSignal.seen /\ atSignal.serving)
          => \A c \in Conns : conns[c] = "none" => conns'[c] = "none"]_vars
    /\ []((runMode = "RunMux" /\ atSignal.seen /\ atSignal.serving)
          => \A c \in atSignal.inflight : conns[c] # "aborted")

\* C6: RunMux has returned only if idleConnsClosed was closed by a watcher
\* that finished Shutdown, every connection in progress at the signal has
\* finished, no connection is still being served, and the server is neither
\* Serving nor Draining.
C6_ReturnsOnlyWhenStopped ==
    (runMode = "RunMux" /\ mainPc = "returned")
    => /\ idleConnsClosed
       /\ wPc = "exit"
       /\ ret.shut # "none"
       /\ atSignal.seen
       /\ \A c \in atSignal.inflight : conns[c] = "closed"
       /\ \A c \in Conns : conns[c] \in {"none", "closed"}
       /\ ~Serving
       /\ ~Draining

C6_Witness ==
    /\ runMode = "RunMux"
    /\ mainPc = "returned"
    /\ atSignal.serving
    /\ Cardinality(atSignal.inflight) = MaxConns
    /\ \A c \in Conns : conns[c] = "closed"

\* C7: after a bind failure the run call ends: it never waits for a signal,
\* and when it has returned no watcher is left running.
C7_BindFailureEndsRun ==
    /\ ret.las = "bind" => mainPc \in {"lasret", "returned"}
    /\ (ret.las = "bind" /\ mainPc = "returned")
       => wPc \in {"unspawned", "exit"}

\* The watcher has taken a signal from its channel.
SignalReceived == wPc \in {"shutdown", "poll", "shutret", "exit"}

\* C11: in RunMux, srv.Shutdown is called at most once, only after the
\* watcher received a signal and while idleConnsClosed is still open, which
\* is closed only after that call; and a second or later signal delivered to
\* the process changes nothing of the supervisor: no Shutdown call, no step
\* of the caller or the watcher, no change to the server, its connections,
\* the log or the process.
C11_ShutdownOnce ==
    [][runMode = "RunMux"
       => /\ srv'.shutdowns # srv.shutdowns
             => /\ srv.shutdowns = 0
                /\ srv'.shutdowns = 1
                /\ SignalReceived
                /\ ~idleConnsClosed
                /\ ~idleConnsClosed'
          /\ (idleConnsClosed' /\ ~idleConnsClosed) => srv.shutdowns = 1
          /\ (sig'.delivered > sig.delivered /\ sig.delivered >= 1)
             => UNCHANGED <<mainPc, wPc, srv, conns, alive, idleConnsClosed,
                            ret, rlog>>]_vars

\* C12: when ListenAndServe in RunMux ended with an error other than
\* ErrServerClosed, the error is logged before RunMux waits, and RunMux has
\* returned only if the watcher received a signal, called Shutdown and
\* closed idleConnsClosed.
C12_ListenErrorStillWaits ==
    (runMode = "RunMux" /\ ret.las \in {"bind", "accept"})
    => /\ mainPc \in {"lasret", "wait", "returned"}
       /\ mainPc \in {"wait", "returned"}
          => "Error at ListenAndServe" \in Range(rlog)
       /\ mainPc = "returned"
          => /\ "Signal received, shutting down..." \in Range(rlog)
             /\ srv.shutdowns = 1
             /\ wPc = "exit"
             /\ idleConnsClosed

C12_Witness ==
    /\ runMode = "RunMux"
    /\ ret.las = "accept"
    /\ mainPc = "returned"
    /\ "Error at ListenAndServe" \in Range(rlog)

\* C13: under fair scheduling, once the watcher of RunMux received a signal,
\* RunMux eventually returns with idleConnsClosed closed; if Shutdown
\* returned an error it has been logged by then.
C13_SignalLeadsToReturn ==
    (runMode = "RunMux" /\ SignalReceived)
    ~> (/\ mainPc = "returned"
        /\ idleConnsClosed
        /\ ret.shut # "nil" => "Error at httpServer.Shutdown" \in Range(rlog))

C13_Witness ==
    /\ runMode = "RunMux"
    /\ mainPc = "returned"
    /\ idleConnsClosed
    /\ ret.shut = "close error"
    /\ "Error at httpServer.Shutdown" \in Range(rlog)
    /\ \E c \in atSignal.inflight : conns[c] = "closed"

\* C18: in RunMux, whenever the server accepts connections and the watcher
\* has not yet taken a signal, the watcher has registered every termination
\* signal and waits on its channel.
C18_WatcherCoversServing ==
    (runMode = "RunMux" /\ alive /\ Serving /\ ~SignalReceived)
    => (wPc = "recv" /\ sig.registered = Signals)

\* ------------------------------------------------------------------------
\* Further properties of the instrumented handler
\* ------------------------------------------------------------------------

\* The requests whose wrapper is past the inner handler and the recovery.
Handled == {r \in Requests : pc[r] \notin {"idle", "handler"}}

\* The sink as the inner handler of request r left it, before the deferred
\* function ran.
AtHandlerEnd(r) ==
    RunScript(variant, [rc |-> InitialRc(build, variant), w |-> FreshWriter],
              issued[r])

\* C14: after a recovered panic the response carries status 500 exactly
\* when the inner handler had not started a response; when it had started
\* one with status S, the underlying writer received no call beyond the
\* handler's own and the recorded status is S.  The panic value is captured
\* and the wrapper goes on.
C14_Panic500OnlyIfNotStarted ==
    \A r \in Handled :
        outcome[r] # "nil"
        => LET h == AtHandlerEnd(r) IN
           /\ re[r] = outcome[r]
           /\ ~h.w.wroteHeader
              => /\ w[r].wroteHeader
                 /\ w[r].status = StatusInternalServerError
           /\ h.w.wroteHeader
              => /\ w[r].calls = h.w.calls
                 /\ w[r].status = h.w.status
                 /\ HasLrw(variant) => rc[r] = h.w.status

\* C15: through the recording writer every call of the handler reaches the
\* underlying writer unchanged and in order, and the recorded status is the
\* status the transport sends: the first one set, or 200.
C15_RecordedStatusIsSentStatus ==
    \A r \in Handled :
        (HasLrw(variant) /\ outcome[r] = "nil")
        => /\ w[r].calls = issued[r]
           /\ rc[r] = ClientStatus(w[r])

\* The non-metrics requests whose inner handler has returned or panicked
\* and whose recovery is done.
Finished == {r \in Handled : ~IsMetricsPath(path[r])}

\* C16: in the counting variant a request is counted only after its handler
\* finished and logged only after it was counted, so the number of log
\* records is at most the counter's increase, which is at most the number
\* of finished non-metrics requests.
C16_HandleThenCountThenLog ==
    variant = "AddLoggingToMuxWithCounter"
    => /\ \A r \in Requests : RecordsOf(r) # {} => r \in Counted
       /\ Counted \subseteq Finished
       /\ Len(log) <= counter - prior
       /\ counter - prior <= Cardinality(Finished)

C16_Witness ==
    /\ variant = "AddLoggingToMuxWithCounter"
    /\ Len(log) = 0
    /\ counter - prior = 1
    /\ Cardinality(Finished) = 2
    /\ \E r \in Requests : outcome[r] # "nil"

\* The transport's writer after the calls of script, made on it directly.
RECURSIVE Direct(_, _)
Direct(u, script) ==
    IF Len(script) = 0 THEN u
    ELSE Direct(IF Head(script).op = "WriteHeader"
                THEN UWriteHeader(u, Head(script).code)
                ELSE UWrite(u),
                Tail(script))

\* C17: for a request whose handler did not panic, the underlying writer
\* received exactly the calls the handler issued, in order, and is in the
\* state those calls alone would have put it in.
C17_WrapperIsTransparent ==
    \A r \in Handled :
        outcome[r] = "nil"
        => /\ w[r].calls = issued[r]
           /\ w[r] = Direct(FreshWriter, issued[r])

C17_Witness ==
    \E r \in Handled :
        /\ variant = "AddLoggingToMux"
        /\ outcome[r] = "nil"
        /\ issued[r] = <<WriteHeaderCall(404), WriteHeaderCall(StatusOK)>>
        /\ w[r].calls = issued[r]
        /\ pc[r] = "done"

\* ------------------------------------------------------------------------
\* Properties of Go
\* ------------------------------------------------------------------------

\* C19: a panic raised by the function started with Go is recovered: its
\* goroutine ends recovered and the process keeps running.
C19_GoRecoversPanics ==
    \A t \in Tasks :
        (goroutine[t].f = "panics"
            /\ goroutine[t].st \notin {"none", "running"})
        => (goroutine[t].st = "recovered" /\ exitCode = 0)

====
